---- MODULE Spec2Model ----
(***************************************************************************)
(* Snapshot reconciliation (POST /api/pods/snapshot) and IP geolocation    *)
(* enrichment (IpGeolocationService) of the Xandeum analytics dashboard.   *)
(*                                                                         *)
(* Optional values (null | T) are modelled as sequences: <<>> is null and  *)
(* <<v>> is the value v.  Strings that the code parses (node addresses,    *)
(* IPs) are sequences of one-character strings.  Times are milliseconds.   *)
(***************************************************************************)
EXTENDS Integers, Sequences, FiniteSets, TLC

VARIABLES
  pods,               \* table "pods": set of rows
  metrics,            \* table "pod_metrics_history": set of rows
  geo,                \* table "ip_geolocation": set of rows
  nextPodId,          \* serial of pods.id
  nextMetricId,       \* serial of pod_metrics_history.id
  nextGeoId,          \* serial of ip_geolocation.id
  requestTimestamps,  \* IpGeolocationService.requestTimestamps
  now,                \* Date.now()
  sent,               \* provider side: send times of the requests it received
  cycles,             \* number of handler invocations so far
  faults,             \* number of injected store / provider failures so far
  menu,               \* the report variants the upstream source produces in this run
  last,               \* response and effects of the latest invocation
  cache,              \* the entry of one key of the query cache (pods.ts), or null
  pending,            \* the fetchFn() promises of that key that are not settled
  completed           \* the fetches of that key that resolved so far

vars == <<pods, metrics, geo, nextPodId, nextMetricId, nextGeoId,
          requestTimestamps, now, sent, cycles, faults, menu, last,
          cache, pending, completed>>

cacheVars == <<cache, pending, completed>>

\* const cache = new Map(): no entry, and nothing in flight
CacheIdle == cache = <<>> /\ pending = {} /\ completed = {}

----------------------------------------------------------------------------
(* Bounds of the model *)

MaxCycles == 2
MaxFaults == 1
MaxNodes == 2
MaxFaultNodes == 1

----------------------------------------------------------------------------
(* Values *)

Null == <<>>
Some(v) == <<v>>

\* JavaScript truthiness of a number | null
Truthy(v) == v # Null /\ v[1] # 0

\* JavaScript truthiness of a string | null
TruthyStr(v) == v # Null /\ v[1] # ""

DigitChar == <<"0", "1", "2", "3", "4", "5", "6", "7", "8", "9">>

\* Number.prototype.toString / BigInt.prototype.toString of a natural number
RECURSIVE Digits(_)
Digits(n) ==
  IF n < 10 THEN <<DigitChar[n + 1]>>
  ELSE Digits(n \div 10) \o <<DigitChar[(n % 10) + 1]>>

Undefined == <<"undefined">>

\* v?.toString()
OptToString(v) == IF v = Null THEN Undefined ELSE Digits(v[1])

\* the "host:port" address of an endpoint
Addr(host, port) ==
  <<"1", "0", ".", "0", ".", "0", ".">> \o Digits(host) \o <<":">> \o Digits(port)

\* the endpoints of the monitored network; the third shares its host with the first
NodeAddr(i) == Addr(((i - 1) % 2) + 1, 9000 + ((i - 1) \div 2))

----------------------------------------------------------------------------
(* Reported nodes (type Pod) *)

BasePod(a) ==
  [address |-> a, pubkey |-> Some("X"), version |-> "1.0.0",
   is_public |-> Some(TRUE), rpc_port |-> Some(6000),
   storage_used |-> Some(5), storage_committed |-> Some(10),
   storage_usage_percent |-> Some(50), uptime |-> Some(100),
   last_seen_timestamp |-> 2]

Variants == 1..11

Variant(a, k) ==
  CASE k = 1 -> BasePod(a)
    [] k = 2 -> [BasePod(a) EXCEPT !.version = "1.0.1"]
    [] k = 3 -> [BasePod(a) EXCEPT !.uptime = Some(101)]
    [] k = 4 -> [BasePod(a) EXCEPT !.uptime = Some(101), !.last_seen_timestamp = 3]
    [] k = 5 -> [BasePod(a) EXCEPT !.uptime = Some(101), !.last_seen_timestamp = 1]
    [] k = 6 -> [BasePod(a) EXCEPT !.storage_used = Some(0)]
    [] k = 7 -> [BasePod(a) EXCEPT !.storage_used = Null, !.storage_committed = Null,
                                   !.storage_usage_percent = Null, !.uptime = Null]
    [] k = 8 -> [BasePod(a) EXCEPT !.pubkey = Null, !.is_public = Null]
    [] k = 9 -> [BasePod(a) EXCEPT !.storage_usage_percent = Null]
    [] k = 10 -> [BasePod(a) EXCEPT !.storage_usage_percent = Null, !.uptime = Some(101)]
    [] k = 11 -> [BasePod(a) EXCEPT !.storage_usage_percent = Null, !.version = "1.0.1"]

Menus == {{1, k} : k \in 2..8} \cup {{6, 7}, {9, 10}, {9, 11}}

\* live lists over the first n endpoints, addresses pairwise distinct
RECURSIVE LiveLists(_, _)
LiveLists(n, m) ==
  IF n = 0 THEN {<<>>}
  ELSE LET shorter == LiveLists(n - 1, m)
       IN  shorter \cup {Append(l, Variant(NodeAddr(n), k)) : l \in shorter, k \in m}

Range(s) == {s[i] : i \in 1..Len(s)}

----------------------------------------------------------------------------
(* The node registry store *)

\* prisma.pod.findMany({select: {..., metrics: {orderBy: {timestamp: "desc"}, take: 1}}}):
\* the rows a pod's "latest metrics" can be; rows of equal timestamp tie, and
\* the database returns any one of them
LatestMetrics(M, podId) ==
  LET rows == {m \in M : m.podId = podId}
  IN  IF rows = {} THEN {Null}
      ELSE {Some(r) : r \in {m \in rows : \A o \in rows : o.timestamp <= m.timestamp}}

\* the possible values of dbPodMap: address -> [pod, latest]
RECURSIVE DbPodMaps(_, _)
DbPodMaps(P, M) ==
  IF P = {} THEN {<<>>}
  ELSE LET p == CHOOSE r \in P : TRUE
       IN  {f @@ (p.address :> [pod |-> p, latest |-> l]) :
              f \in DbPodMaps(P \ {p}, M), l \in LatestMetrics(M, p.id)}

ApiAddresses(L) == {L[i].address : i \in 1..Len(L)}

\* PodsToDelete with the membership test inverted
PodsToDeleteInverted(dbPodMap, L) ==
  {dbPodMap[a].pod : a \in {b \in DOMAIN dbPodMap : b \in ApiAddresses(L)}}

\* dbPods.filter((pod) => !apiAddresses.has(pod.address))
PodsToDelete(dbPodMap, L) ==
  {dbPodMap[a].pod : a \in {b \in DOMAIN dbPodMap : b \notin ApiAddresses(L)}}

\* a deleteMany without its where clause
DeleteManyEvery(P, M, ids) == [pods |-> {}, metrics |-> {}]

\* prisma.pod.deleteMany({where: {id: {in: ids}}}); the foreign key of
\* pod_metrics_history cascades
DeleteMany(P, M, ids) ==
  [pods |-> {r \in P : r.id \notin ids},
   metrics |-> {m \in M : m.podId \notin ids}]

\* pod.pubkey ?? null
Coalesce(v) == IF v = Null THEN Null ELSE v

\* dec !== num for a DECIMAL column, which the client returns as a Decimal
\* object (or null), and a reported number (or null): an object is never
\* identical to a number, so only null !== null is false
DecimalNotIdentical(dec, num) == ~(dec = Null /\ num = Null)

\* MetricsChanged without the uptime comparison
MetricsChangedNoUptime(latest, pod) ==
  \/ latest = Null
  \/ OptToString(latest[1].storageUsed) # OptToString(pod.storage_used)
  \/ OptToString(latest[1].storageCommitted) # OptToString(pod.storage_committed)
  \/ DecimalNotIdentical(latest[1].storageUsagePercent, pod.storage_usage_percent)

MetricsChanged(latest, pod) ==
  \/ latest = Null
  \/ OptToString(latest[1].storageUsed) # OptToString(pod.storage_used)
  \/ OptToString(latest[1].storageCommitted) # OptToString(pod.storage_committed)
  \/ DecimalNotIdentical(latest[1].storageUsagePercent, pod.storage_usage_percent)
  \/ latest[1].uptime # pod.uptime

\* MetadataChanged without the version comparison
MetadataChangedNoVersion(existing, pod) ==
  \/ existing = Null
  \/ existing[1].pubkey # Coalesce(pod.pubkey)
  \/ existing[1].isPublic # pod.is_public

MetadataChanged(existing, pod) ==
  \/ existing = Null
  \/ existing[1].pubkey # Coalesce(pod.pubkey)
  \/ existing[1].version # pod.version
  \/ existing[1].isPublic # pod.is_public

ExistingPod(dbPodMap, pod) ==
  IF pod.address \in DOMAIN dbPodMap THEN Some(dbPodMap[pod.address].pod) ELSE Null

LatestOf(dbPodMap, pod) ==
  IF pod.address \in DOMAIN dbPodMap THEN dbPodMap[pod.address].latest ELSE Null

\* upsertPod(pod) at time t: keyed by the unique address
UpsertPod(P, nid, pod, t) ==
  IF \E r \in P : r.address = pod.address
  THEN [pods |-> {IF r.address = pod.address
                  THEN [r EXCEPT !.pubkey = Coalesce(pod.pubkey),
                                 !.rpcPort = pod.rpc_port,
                                 !.version = pod.version,
                                 !.isPublic = pod.is_public,
                                 !.updatedAt = t]
                  ELSE r : r \in P},
        nextPodId |-> nid]
  ELSE [pods |-> P \cup {[id |-> nid, address |-> pod.address,
                          pubkey |-> Coalesce(pod.pubkey), rpcPort |-> pod.rpc_port,
                          version |-> pod.version, isPublic |-> pod.is_public,
                          updatedAt |-> t]},
        nextPodId |-> nid + 1]

\* pod.pubkey || pod.address, the name an error message gives the pod
PodLabel(pod) == IF TruthyStr(pod.pubkey) THEN pod.pubkey ELSE pod.address

\* for (const pod of podsToUpsert) { try { await upsertPod(pod) } catch { errors.push } }
\* failAt is the index of the call that throws (0: none)
RECURSIVE UpsertLoop(_, _, _, _, _)
UpsertLoop(todo, i, st, failAt, t) ==
  IF i > Len(todo) THEN st
  ELSE IF i = failAt
       THEN UpsertLoop(todo, i + 1,
              [st EXCEPT !.errors = Append(@, <<"upsert", PodLabel(todo[i])>>)],
              failAt, t)
       ELSE LET u == UpsertPod(st.pods, st.nextPodId, todo[i], t)
            IN  UpsertLoop(todo, i + 1,
                  [st EXCEPT !.pods = u.pods, !.nextPodId = u.nextPodId,
                             !.upserted = @ \cup {todo[i].address}],
                  failAt, t)

\* v ? BigInt(v) : null
BigIntOrNull(v) == IF Truthy(v) THEN v ELSE Null

\* one element of metricsData (null when the address has no pod row)
MetricsRow(P, pod) ==
  LET found == {r \in P : r.address = pod.address}
  IN  IF found = {} THEN Null
      ELSE LET podId == (CHOOSE r \in found : TRUE).id
           IN  IF podId = 0 THEN Null
               ELSE Some([podId |-> podId,
                          timestamp |-> pod.last_seen_timestamp * 1000,
                          storageUsed |-> BigIntOrNull(pod.storage_used),
                          storageCommitted |-> BigIntOrNull(pod.storage_committed),
                          storageUsagePercent |-> pod.storage_usage_percent,
                          uptime |-> pod.uptime,
                          lastSeenTimestamp |-> pod.last_seen_timestamp])

\* metricsToInsert.map(...).filter((m) => m !== null)
RECURSIVE MetricsData(_, _, _)
MetricsData(P, toInsert, i) ==
  IF i > Len(toInsert) THEN <<>>
  ELSE LET row == MetricsRow(P, toInsert[i])
       IN  (IF row = Null THEN <<>> ELSE <<row[1]>>) \o MetricsData(P, toInsert, i + 1)

WithId(row, id) ==
  [id |-> id, podId |-> row.podId, timestamp |-> row.timestamp,
   storageUsed |-> row.storageUsed, storageCommitted |-> row.storageCommitted,
   storageUsagePercent |-> row.storageUsagePercent, uptime |-> row.uptime,
   lastSeenTimestamp |-> row.lastSeenTimestamp]

\* prisma.podMetricsHistory.createMany({data, skipDuplicates: true}); the table
\* has no unique index besides its serial id, so no row is ever skipped
CreateManyMetrics(M, nid, data) ==
  [metrics |-> M \cup {WithId(data[i], nid + i - 1) : i \in 1..Len(data)},
   nextMetricId |-> nid + Len(data)]

----------------------------------------------------------------------------
(* IpGeolocationService: pure helpers *)

MAX_IPS_PER_BATCH == 100
MAX_REQUESTS_PER_MINUTE == 45

\* Math.ceil(60000 / MAX_REQUESTS_PER_MINUTE)
MIN_DELAY_BETWEEN_REQUESTS_MS ==
  (60000 + MAX_REQUESTS_PER_MINUTE - 1) \div MAX_REQUESTS_PER_MINUTE

DecDigits == {"0", "1", "2", "3", "4", "5", "6", "7", "8", "9"}
HexDigits == DecDigits \cup {"a", "b", "c", "d", "e", "f", "A", "B", "C", "D", "E", "F"}

\* the pieces of str between the separator positions at (in ascending order)
Pieces(str, at) ==
  [k \in 1..(Len(at) + 1) |->
     SubSeq(str, IF k = 1 THEN 1 ELSE at[k - 1] + 1,
                 IF k = Len(at) + 1 THEN Len(str) ELSE at[k] - 1)]

\* String.prototype.split(sep) for a one-character separator
Split(str, sep) ==
  LET isSep(i) == str[i] = sep
  IN  Pieces(str, SelectSeq([i \in 1..Len(str) |-> i], isSep))

\* extractIp without the test on the number of parts
extractIpAnyParts(address) ==
  LET parts == Split(address, ":")
  IN  IF parts[1] = <<>> THEN Null ELSE Some(parts[1])

\* extractIp taking the text before the last colon as the host
extractIpLastColon(address) ==
  LET colons == {i \in 1..Len(address) : address[i] = ":"}
      host == SubSeq(address, 1, (CHOOSE i \in colons : \A j \in colons : j <= i) - 1)
  IN  IF colons = {} THEN Null
      ELSE IF host = <<>> THEN Null ELSE Some(host)

extractIp(address) ==
  LET parts == Split(address, ":")
  IN  IF Len(parts) < 2 THEN Null
      ELSE IF parts[1] = <<>> THEN Null ELSE Some(parts[1])

\* /^(\d{1,3}\.){3}\d{1,3}$/
ipv4Regex(ip) ==
  LET groups == Split(ip, ".")
  IN  /\ Len(groups) = 4
      /\ \A g \in 1..4 : /\ Len(groups[g]) \in 1..3
                         /\ \A c \in 1..Len(groups[g]) : groups[g][c] \in DecDigits

\* /^([0-9a-fA-F]{0,4}:){2,7}[0-9a-fA-F]{0,4}$/
ipv6Regex(ip) ==
  LET groups == Split(ip, ":")
  IN  /\ Len(groups) \in 3..8
      /\ \A g \in 1..Len(groups) :
            /\ Len(groups[g]) \in 0..4
            /\ \A c \in 1..Len(groups[g]) : groups[g][c] \in HexDigits

isValidIp(ip) == ipv4Regex(ip) \/ ipv6Regex(ip)

\* every value of a sequence, repeated ones included
AllOccurrences(seq) == seq

\* the values of a sequence in order of first occurrence (Array.from of a Set
\* filled in sequence order)
FirstOccurrences(seq) ==
  LET first(i) == \A j \in 1..(i - 1) : seq[j] # seq[i]
      kept == SelectSeq([i \in 1..Len(seq) |-> i], first)
  IN  [k \in 1..Len(kept) |-> seq[kept[k]]]

\* an address contributes its IP when it has one and the IP is valid
extractUniqueIps(addresses) ==
  LET usable(ip) == ip # Null /\ isValidIp(ip[1])
      ips == SelectSeq([i \in 1..Len(addresses) |-> extractIp(addresses[i])], usable)
  IN  FirstOccurrences([i \in 1..Len(ips) |-> ips[i][1]])

\* prisma.ipGeolocation.findMany({where: {ip: {in: ips}}, select: {ip: true}})
ExistingIps(G, ips) == {g.ip : g \in G} \cap Range(ips)

\* the elements of seq that are not in the set
Without(seq, set) == LET absent(x) == x \notin set IN SelectSeq(seq, absent)

\* getNewIps without the filter on the existing records
getNewIpsUnfiltered(G, ips, queryFails) ==
  IF ips = <<>> THEN <<>>
  ELSE IF queryFails THEN <<>>
  ELSE ips

\* getNewIps: a failing query is logged and answered with []
getNewIps(G, ips, queryFails) ==
  IF ips = <<>> THEN <<>>
  ELSE IF queryFails THEN <<>>
  ELSE Without(ips, ExistingIps(G, ips))

\* chunkArray whose slices run one element into the next chunk
RECURSIVE chunkArrayOverlapping(_, _)
chunkArrayOverlapping(array, chunkSize) ==
  IF array = <<>> THEN <<>>
  ELSE IF Len(array) <= chunkSize THEN <<array>>
  ELSE <<SubSeq(array, 1, chunkSize + 1)>>
         \o chunkArrayOverlapping(SubSeq(array, chunkSize + 1, Len(array)), chunkSize)

RECURSIVE chunkArray(_, _)
chunkArray(array, chunkSize) ==
  IF array = <<>> THEN <<>>
  ELSE IF Len(array) <= chunkSize THEN <<array>>
  ELSE <<SubSeq(array, 1, chunkSize)>>
         \o chunkArray(SubSeq(array, chunkSize + 1, Len(array)), chunkSize)

SeqMin(seq) == CHOOSE x \in Range(seq) : \A y \in Range(seq) : x <= y

\* what a waitForRateLimit call leaves: the window, the time it returns at, and
\* what it did (found: the timestamps in the window after the first filter,
\* waitTime: the computed wait or null, waited: the sleep, removed: the
\* timestamps the second filter dropped)
Limited(ts, t, found, waitTime, waited, removed) ==
  [ts |-> ts, now |-> t, found |-> found, waitTime |-> waitTime,
   waited |-> waited, removed |-> removed]

\* waitForRateLimit without the first clean-up of old timestamps
waitForRateLimitUnpruned(ts, t) ==
  LET oneMinuteAgo == t - 60000
      recent(x) == x > oneMinuteAgo
  IN  IF Len(ts) >= MAX_REQUESTS_PER_MINUTE
      THEN LET oldestRequest == SeqMin(ts)
               waitTime == oneMinuteAgo - oldestRequest + 100
           IN  IF waitTime > 0
               THEN Limited(SelectSeq(ts, recent), t + waitTime, Len(ts),
                            Some(waitTime), waitTime,
                            Len(ts) - Len(SelectSeq(ts, recent)))
               ELSE Limited(ts, t, Len(ts), Some(waitTime), 0, 0)
      ELSE Limited(ts, t, Len(ts), Null, 0, 0)

\* waitForRateLimit at time t
waitForRateLimit(ts, t) ==
  LET oneMinuteAgo == t - 60000
      recent(x) == x > oneMinuteAgo
      pruned == SelectSeq(ts, recent)
  IN  IF Len(pruned) >= MAX_REQUESTS_PER_MINUTE
      THEN LET oldestRequest == SeqMin(pruned)
               waitTime == oneMinuteAgo - oldestRequest + 100
           IN  IF waitTime > 0
               THEN Limited(SelectSeq(pruned, recent), t + waitTime, Len(pruned),
                            Some(waitTime), waitTime,
                            Len(pruned) - Len(SelectSeq(pruned, recent)))
               ELSE Limited(pruned, t, Len(pruned), Some(waitTime), 0, 0)
      ELSE Limited(pruned, t, Len(pruned), Null, 0, 0)

----------------------------------------------------------------------------
(* The external bulk geolocation provider *)

\* what the provider answers for one IP: it resolves every host but 10.0.0.2
ProviderRecord(ip) ==
  IF ip = <<"1", "0", ".", "0", ".", "0", ".", "2">>
  THEN [status |-> "fail", query |-> ip, country |-> Null, countryCode |-> Null,
        region |-> Null, regionName |-> Null, city |-> Null, zip |-> Null,
        lat |-> Null, lon |-> Null, timezone |-> Null, isp |-> Null,
        org |-> Null, as |-> Null]
  ELSE [status |-> "success", query |-> ip, country |-> Some("Germany"),
        countryCode |-> Some("DE"), region |-> Some("HE"),
        regionName |-> Some("Hesse"), city |-> Some("Frankfurt"),
        zip |-> Some("60313"), lat |-> Some(50), lon |-> Some(8),
        timezone |-> Some("Europe/Berlin"), isp |-> Some("ISP"),
        org |-> Some("ORG"), as |-> Some("AS1")]

\* the ways one request to the provider can end
ProviderKinds == {"ok", "partial", "repeat", "429", "500", "badjson", "neterr"}

\* the body of a 200 response to a chunk: complete, missing its last IP, or
\* repeating its first IP with a different record
ProviderBody(ips, kind) ==
  LET full == [i \in 1..Len(ips) |-> ProviderRecord(ips[i])]
  IN  CASE kind = "ok" -> full
        [] kind = "partial" -> SubSeq(full, 1, Len(full) - 1)
        [] kind = "repeat" ->
             Append(full, [full[1] EXCEPT !.status = "fail"])
        [] OTHER -> <<>>

----------------------------------------------------------------------------
(* IpGeolocationService: requests and storage *)

\* fetchSingleBatch(ips) called at time t: the limiter, the request (sent at
\* sentAt, answered latency ms later), recordRequest, and the parsed data.
\* A transport error throws out of fetch, past recordRequest.
fetchSingleBatch(ts, t, ips, kind, latency) ==
  LET w == waitForRateLimit(ts, t)
      answered == w.now + latency
  IN  [sentAt |-> w.now,
       now |-> answered,
       ts |-> IF kind = "neterr" THEN w.ts ELSE Append(w.ts, answered),
       data |-> ProviderBody(ips, kind),
       limiter |-> w]

\* valuesToInsert: a failed lookup keeps only ip and status
ValueToInsert(item) ==
  IF item.status # "success"
  THEN [ip |-> item.query, status |-> item.status, country |-> Null,
        countryCode |-> Null, region |-> Null, regionName |-> Null,
        city |-> Null, zip |-> Null, lat |-> Null, lon |-> Null,
        timezone |-> Null, isp |-> Null, org |-> Null, asInfo |-> Null]
  ELSE [ip |-> item.query, status |-> item.status, country |-> item.country,
        countryCode |-> item.countryCode, region |-> item.region,
        regionName |-> item.regionName, city |-> item.city, zip |-> item.zip,
        lat |-> item.lat, lon |-> item.lon, timezone |-> item.timezone,
        isp |-> item.isp, org |-> item.org, asInfo |-> item.as]

GeoRow(v, id) ==
  [id |-> id, ip |-> v.ip, status |-> v.status, country |-> v.country,
   countryCode |-> v.countryCode, region |-> v.region,
   regionName |-> v.regionName, city |-> v.city, zip |-> v.zip,
   lat |-> v.lat, lon |-> v.lon, timezone |-> v.timezone, isp |-> v.isp,
   org |-> v.org, asInfo |-> v.asInfo]

\* a table without the unique index
IpConflictNever(G, v) == FALSE

\* the unique index ip_geolocation_ip_key
IpConflict(G, v) == \E g \in G : g.ip = v.ip

\* createMany as an upsert: a value whose ip is in the table replaces that row
CreateManyGeoReplacing(G, nid, values) ==
  LET first(i) == \A j \in 1..(i - 1) : values[j].ip # values[i].ip
      ins == SelectSeq([i \in 1..Len(values) |-> i], first)
  IN  [geo |-> {g \in G : \A i \in 1..Len(values) : values[i].ip # g.ip}
                 \cup {GeoRow(values[ins[k]], nid + k - 1) : k \in 1..Len(ins)},
       nextGeoId |-> nid + Len(ins)]

\* prisma.ipGeolocation.createMany({data, skipDuplicates: true}):
\* INSERT ... ON CONFLICT DO NOTHING, row by row: a value is inserted unless
\* its ip is in the table or in an earlier value of the statement
CreateManyGeo(G, nid, values) ==
  LET inserted(i) == /\ ~IpConflict(G, values[i])
                     /\ \A j \in 1..(i - 1) : ~IpConflict({values[j]}, values[i])
      ins == SelectSeq([i \in 1..Len(values) |-> i], inserted)
  IN  [geo |-> G \cup {GeoRow(values[ins[k]], nid + k - 1) : k \in 1..Len(ins)},
       nextGeoId |-> nid + Len(ins)]

\* the outcome of a storeGeolocation call
StoreResult(G, nid, stored, threw) ==
  [geo |-> G, nextGeoId |-> nid, stored |-> stored, threw |-> threw]

\* the insert of storeGeolocation: newItems are the fetched items whose IP has
\* no record yet; the call returns newItems.length
InsertNewItems(G, nid, newItems, created) ==
  IF newItems = <<>> THEN StoreResult(G, nid, 0, FALSE)
  ELSE StoreResult(created.geo, created.nextGeoId, Len(newItems), FALSE)

NewItems(G, data) ==
  LET existingIpSet == ExistingIps(G, [i \in 1..Len(data) |-> data[i].query])
      isNew(item) == item.query \notin existingIpSet
  IN  SelectSeq(data, isNew)

\* valuesToInsert without the items of failed lookups
ValuesToInsertSuccessOnly(newItems) ==
  LET ok(item) == item.status = "success"
      kept == SelectSeq(newItems, ok)
  IN  [i \in 1..Len(kept) |-> ValueToInsert(kept[i])]

ValuesToInsert(newItems) == [i \in 1..Len(newItems) |-> ValueToInsert(newItems[i])]

StoreNewItems(G, nid, newItems) ==
  InsertNewItems(G, nid, newItems, CreateManyGeo(G, nid, ValuesToInsert(newItems)))

\* storeGeolocation(data); G is the table when findMany reads it, late the
\* table (and serial) when createMany runs; fail: a store call throws
storeGeolocation(G, nid, data, fail, late) ==
  IF data = <<>> THEN StoreResult(G, nid, 0, FALSE)
  ELSE IF fail THEN StoreResult(late.geo, late.nextGeoId, 0, TRUE)
  ELSE StoreNewItems(late.geo, late.nextGeoId, NewItems(G, data))

ZeroResult == [newIpsCount |-> 0, storedCount |-> 0, batchesProcessed |-> 0]

\* the environment of one processNewIps call: exist (the existence query
\* fails), kind (how the request of chunk `at` ends; at = 0: of every chunk),
\* storeFail (the chunk whose store call throws, 0: none), latency, and race
\* (the chunk whose IPs another instance of the service stores meanwhile, 0:
\* none) with racePoint ("check": while the request is in flight, "insert":
\* between findMany and createMany of storeGeolocation)
KindAt(env, i) == IF env.at = 0 \/ env.at = i THEN env.kind ELSE "ok"

\* AfterChunk leaving the loop when the chunk has no results
AfterChunkStopping(chunks, i, st, f, s, others) ==
  [geo |-> s.geo, nextGeoId |-> s.nextGeoId, ts |-> f.ts,
   now |-> IF ~s.threw /\ i < Len(chunks)
           THEN f.now + MIN_DELAY_BETWEEN_REQUESTS_MS ELSE f.now,
   sent |-> Append(st.sent, f.sentAt),
   requested |-> Append(st.requested, chunks[i]),
   storedCount |-> st.storedCount + s.stored,
   batchesProcessed |-> st.batchesProcessed
                          + (IF f.data # <<>> /\ ~s.threw THEN 1 ELSE 0),
   threw |-> s.threw \/ f.data = <<>>,
   otherIds |-> st.otherIds \cup others,
   waits |-> Append(st.waits, f.limiter)]

\* the state of the chunk loop after chunk i was fetched (f) and stored (s):
\* counts are added unless the store threw, and a chunk that is not the last
\* is followed by the pacing delay
AfterChunk(chunks, i, st, f, s, others) ==
  [geo |-> s.geo, nextGeoId |-> s.nextGeoId, ts |-> f.ts,
   now |-> IF ~s.threw /\ i < Len(chunks)
           THEN f.now + MIN_DELAY_BETWEEN_REQUESTS_MS ELSE f.now,
   sent |-> Append(st.sent, f.sentAt),
   requested |-> Append(st.requested, chunks[i]),
   storedCount |-> st.storedCount + s.stored,
   batchesProcessed |-> st.batchesProcessed
                          + (IF f.data # <<>> /\ ~s.threw THEN 1 ELSE 0),
   threw |-> s.threw,
   otherIds |-> st.otherIds \cup others,
   waits |-> Append(st.waits, f.limiter)]

\* the records another instance of the service writes for chunk i at point
RaceValues(chunks, i, env, point) ==
  IF env.race = i /\ env.racePoint = point
  THEN [k \in 1..Len(chunks[i]) |-> ValueToInsert(ProviderRecord(chunks[i][k]))]
  ELSE <<>>

\* if (results.length > 0) { stored = await this.storeGeolocation(results) ... }
\* early: the table after the request, late: the table when createMany runs
StoreChunk(early, f, fail, late) ==
  IF f.data # <<>> THEN storeGeolocation(early.geo, early.nextGeoId, f.data, fail, late)
  ELSE StoreResult(late.geo, late.nextGeoId, 0, FALSE)

RacedChunk(chunks, i, st, env, f, early, late) ==
  AfterChunk(chunks, i, st, f, StoreChunk(early, f, env.storeFail = i, late),
             st.nextGeoId..(late.nextGeoId - 1))

EarlyRaced(chunks, i, st, env, f, early) ==
  RacedChunk(chunks, i, st, env, f, early,
             CreateManyGeo(early.geo, early.nextGeoId, RaceValues(chunks, i, env, "insert")))

FetchedChunk(chunks, i, st, env, f) ==
  EarlyRaced(chunks, i, st, env, f,
             CreateManyGeo(st.geo, st.nextGeoId, RaceValues(chunks, i, env, "check")))

\* the chunk loop of processNewIps, from chunk i on; a throwing store call
\* leaves the loop
RECURSIVE ChunkLoop(_, _, _, _)
ChunkLoop(chunks, i, st, env) ==
  IF i > Len(chunks) \/ st.threw THEN st
  ELSE ChunkLoop(chunks, i + 1,
         FetchedChunk(chunks, i, st, env,
           fetchSingleBatch(st.ts, st.now, chunks[i], KindAt(env, i), env.latency)),
         env)

\* processNewIps without its catch
CatchNothing(st, result) == st @@ [result |-> result]

\* the catch at the top of processNewIps
CatchAll(st, result) ==
  IF st.threw THEN [st EXCEPT !.threw = FALSE] @@ [result |-> ZeroResult]
  ELSE st @@ [result |-> result]

\* the return value after the chunk loop ended in st
LoopResult(st, newIps) ==
  CatchAll(st, [newIpsCount |-> Len(newIps), storedCount |-> st.storedCount,
                batchesProcessed |-> st.batchesProcessed])

\* processNewIps once the new IPs are known
ProcessNew(st0, newIps, env) ==
  IF newIps = <<>> THEN st0 @@ [result |-> ZeroResult]
  ELSE LoopResult(ChunkLoop(chunkArray(newIps, MAX_IPS_PER_BATCH), 1, st0, env), newIps)

\* processNewIps once the unique IPs are extracted
ProcessUnique(st0, uniqueIps, env) ==
  IF uniqueIps = <<>> THEN st0 @@ [result |-> ZeroResult, queried |-> <<>>]
  ELSE ProcessNew(st0, getNewIps(st0.geo, uniqueIps, env.exist), env)
         @@ [queried |-> uniqueIps]

\* processNewIps(addresses) called at time t
processNewIps(addresses, t, G, nid, ts, sentLog, env) ==
  ProcessUnique([geo |-> G, nextGeoId |-> nid, ts |-> ts, now |-> t, sent |-> sentLog,
                 requested |-> <<>>, storedCount |-> 0, batchesProcessed |-> 0,
                 threw |-> FALSE, otherIds |-> {}, waits |-> <<>>],
                extractUniqueIps(addresses), env)

----------------------------------------------------------------------------
(* POST /api/pods/snapshot *)

\* round-trip times of a provider request, and times between two invocations
Latencies == {200}
CycleGaps == {60000}

NoFault == [kind |-> "none", at |-> 0]

\* what can go wrong in one invocation: the registry load, the deletion, the
\* at-th upsert, the pod id lookup, the metrics insert, the geolocation
\* existence query, the geolocation insert, or the provider request
StoreFaults(L) ==
  {[kind |-> k, at |-> 0] : k \in {"load", "delete", "podIds", "createMany"}}
    \cup {[kind |-> "upsert", at |-> i] : i \in 1..Len(L)}
    \cup {[kind |-> k, at |-> 1] : k \in {"geoExist", "geoStore"}}
    \cup {[kind |-> k, at |-> 1] : k \in {"429", "neterr"}}

GeoEnv(fault, latency) ==
  [exist |-> fault.kind = "geoExist",
   kind |-> IF fault.kind \in ProviderKinds THEN fault.kind ELSE "ok",
   at |-> 1,
   storeFail |-> IF fault.kind = "geoStore" THEN fault.at ELSE 0,
   latency |-> latency, race |-> 0, racePoint |-> "check"]

\* the tables and the service instance, as one value
Db == [pods |-> pods, metrics |-> metrics, geo |-> geo, nextPodId |-> nextPodId,
       nextMetricId |-> nextMetricId, nextGeoId |-> nextGeoId,
       ts |-> requestTimestamps, sent |-> sent]

NoGeo == [called |-> FALSE, args |-> <<>>, requested |-> <<>>, queried |-> <<>>,
          result |-> ZeroResult, threw |-> FALSE]

\* DbSaveError answering with a server error status
DbSaveError500(db, L, fault, t) ==
  [db |-> db, now |-> t, hit |-> TRUE,
   resp |-> [op |-> "snapshot", L |-> L, fault |-> fault, status |-> 500,
             body |-> "dbSaveError", savedCount |-> 0, skippedCount |-> 0,
             deletedCount |-> 0, errors |-> <<>>, upserted |-> {},
             appended |-> {}, geolocation |-> NoGeo]]

\* the response of the catch (dbError) block: HTTP 200 with dbSave.error
DbSaveError(db, L, fault, t) ==
  [db |-> db, now |-> t, hit |-> TRUE,
   resp |-> [op |-> "snapshot", L |-> L, fault |-> fault, status |-> 200,
             body |-> "dbSaveError", savedCount |-> 0, skippedCount |-> 0,
             deletedCount |-> 0, errors |-> <<>>, upserted |-> {},
             appended |-> {}, geolocation |-> NoGeo]]

\* the classification loop
IsMetadataChanged(dbPodMap, pod) == MetadataChanged(ExistingPod(dbPodMap, pod), pod)
IsMetricsChanged(dbPodMap, pod) == MetricsChanged(LatestOf(dbPodMap, pod), pod)

PodsToUpsert(dbPodMap, L) ==
  LET changed(pod) == IsMetadataChanged(dbPodMap, pod) IN SelectSeq(L, changed)

MetricsToInsert(dbPodMap, L) ==
  LET changed(pod) == IsMetricsChanged(dbPodMap, pod) IN SelectSeq(L, changed)

SavedCount(dbPodMap, L) ==
  Cardinality({i \in 1..Len(L) :
     IsMetadataChanged(dbPodMap, L[i]) \/ IsMetricsChanged(dbPodMap, L[i])})

SkippedCount(dbPodMap, L) ==
  Cardinality({i \in 1..Len(L) :
     ~(IsMetadataChanged(dbPodMap, L[i]) \/ IsMetricsChanged(dbPodMap, L[i]))})

\* what the geolocation step leaves: the store, the time, and what it did
GeoStepResult(db, podAddresses, g) ==
  [db |-> [db EXCEPT !.geo = g.geo, !.nextGeoId = g.nextGeoId,
                     !.ts = g.ts, !.sent = g.sent],
   now |-> g.now,
   geolocation |-> [called |-> TRUE, args |-> podAddresses,
                    requested |-> g.requested, queried |-> g.queried,
                    result |-> g.result, threw |-> g.threw]]

PodAddresses(L) == [i \in 1..Len(L) |-> L[i].address]

\* the geolocation step: only when some node was counted as saved
GeoStep(db, L, savedCount, fault, t, latency) ==
  IF savedCount > 0
  THEN GeoStepResult(db, PodAddresses(L),
         processNewIps(PodAddresses(L), t, db.geo, db.nextGeoId, db.ts, db.sent,
                       GeoEnv(fault, latency)))
  ELSE [db |-> db, now |-> t, geolocation |-> NoGeo]

\* whether the geolocation step met the injected fault
GeoHit(fault, g) ==
  CASE fault.kind = "geoExist" -> g.called /\ g.queried # <<>>
    [] fault.kind = "geoStore" -> Len(g.requested) >= fault.at
    [] fault.kind \in ProviderKinds -> Len(g.requested) >= fault.at
    [] OTHER -> FALSE

\* the classification loop: what it collects and counts
Classify(dbPodMap, L) ==
  [podsToUpsert |-> PodsToUpsert(dbPodMap, L),
   metricsToInsert |-> MetricsToInsert(dbPodMap, L),
   savedCount |-> SavedCount(dbPodMap, L),
   skippedCount |-> SkippedCount(dbPodMap, L)]

\* the write statements a cycle with classification k sends to the registry
\* store, in the order the handler awaits them
Writes(k) ==
  (IF k.deletedCount > 0 THEN <<"deleteMany">> ELSE <<>>)
    \o [i \in 1..Len(k.podsToUpsert) |-> "upsert"]
    \o (IF k.metricsToInsert # <<>> THEN <<"createMany">> ELSE <<>>)

\* return NextResponse.json({...data, dbSave: {...}})
Respond(c, k, ups, appended, g) ==
  [db |-> g.db, now |-> g.now,
   hit |-> \/ c.fault.kind = "upsert" /\ Len(ups.errors) > 0
           \/ GeoHit(c.fault, g.geolocation),
   resp |-> [op |-> "snapshot", L |-> c.L, fault |-> c.fault, status |-> 200,
             body |-> "dbSave", savedCount |-> k.savedCount,
             skippedCount |-> k.skippedCount, deletedCount |-> k.deletedCount,
             errors |-> ups.errors, upserted |-> ups.upserted,
             appended |-> appended, writes |-> Writes(k),
             geolocation |-> g.geolocation]]

\* the store after createMany, then the geolocation step and the response
Inserted(db, c, k, ups, ins) ==
  Respond(c, k, ups, ins.metrics \ db.metrics,
    GeoStep([db EXCEPT !.metrics = ins.metrics, !.nextMetricId = ins.nextMetricId],
            c.L, k.savedCount, c.fault, c.t, c.latency))

\* if (metricsData.length > 0) { await prisma.podMetricsHistory.createMany(...) }
InsertMetrics(db, c, k, ups, metricsData) ==
  IF metricsData # <<>> /\ c.fault.kind = "createMany"
  THEN DbSaveError(db, c.L, c.fault, c.t)
  ELSE Inserted(db, c, k, ups,
         IF metricsData # <<>>
         THEN CreateManyMetrics(db.metrics, db.nextMetricId, metricsData)
         ELSE [metrics |-> db.metrics, nextMetricId |-> db.nextMetricId])

\* if (metricsToInsert.length > 0) { podIds = await prisma.pod.findMany(...) ... }
MetricsPass(db, c, k, ups) ==
  IF k.metricsToInsert # <<>> /\ c.fault.kind = "podIds"
  THEN DbSaveError(db, c.L, c.fault, c.t)
  ELSE InsertMetrics(db, c, k, ups, MetricsData(db.pods, k.metricsToInsert, 1))

\* the store after the upsert loop
Upserted(db, c, k, ups) ==
  MetricsPass([db EXCEPT !.pods = ups.pods, !.nextPodId = ups.nextPodId], c, k, ups)

\* the upsert loop, with the classification k of the nodes
UpsertPass(db, c, k) ==
  Upserted(db, c, k,
    UpsertLoop(k.podsToUpsert, 1,
      [pods |-> db.pods, nextPodId |-> db.nextPodId, errors |-> <<>>, upserted |-> {}],
      IF c.fault.kind = "upsert" THEN c.fault.at ELSE 0, c.t))

\* the store after deleteMany
Deleted(db, c, deletedCount, del) ==
  UpsertPass([db EXCEPT !.pods = del.pods, !.metrics = del.metrics], c,
             Classify(c.dbPodMap, c.L) @@ [deletedCount |-> deletedCount])

\* the deletion pass: one deleteMany for all stale pods
DeletionPass(db, c, podsToDelete) ==
  IF podsToDelete # {} /\ c.fault.kind = "delete"
  THEN DbSaveError(db, c.L, c.fault, c.t)
  ELSE Deleted(db, c, Cardinality(podsToDelete),
         DeleteMany(db.pods, db.metrics, {p.id : p \in podsToDelete}))

\* the handler from the registry load on, invoked at time t with live list L;
\* dbPodMap is what the load returned
SnapshotPost(db, L, dbPodMap, fault, t, latency) ==
  IF fault.kind = "load" THEN DbSaveError(db, L, fault, t)
  ELSE DeletionPass(db,
         [L |-> L, dbPodMap |-> dbPodMap, fault |-> fault, t |-> t,
          latency |-> latency],
         PodsToDelete(dbPodMap, L))

\* the ways a request ends before the handler touches the store
Rejections ==
  {[why |-> "noSecret", status |-> 500, body |-> "error"],
   [why |-> "unauthorized", status |-> 401, body |-> "error"],
   [why |-> "fetchThrows", status |-> 500, body |-> "serverFailed"],
   [why |-> "fetchNotOk", status |-> 503, body |-> "error"],
   [why |-> "invalidData", status |-> 200, body |-> "passthrough"]}

----------------------------------------------------------------------------
(* Specification of the snapshot endpoint *)

Init ==
  /\ pods = {}
  /\ metrics = {}
  /\ geo = {}
  /\ nextPodId = 1
  /\ nextMetricId = 1
  /\ nextGeoId = 1
  /\ requestTimestamps = <<>>
  /\ now = 0
  /\ sent = <<>>
  /\ cycles = 0
  /\ faults = 0
  /\ menu \in Menus
  /\ last = [op |-> "init"]
  /\ CacheIdle

\* the effect of a handler run that ended in out; an injected fault must
\* have been met
Install(fault, out) ==
  /\ fault # NoFault => out.hit
  /\ pods' = out.db.pods
  /\ metrics' = out.db.metrics
  /\ geo' = out.db.geo
  /\ nextPodId' = out.db.nextPodId
  /\ nextMetricId' = out.db.nextMetricId
  /\ nextGeoId' = out.db.nextGeoId
  /\ requestTimestamps' = out.db.ts
  /\ sent' = out.db.sent
  /\ now' = out.now
  /\ last' = out.resp

\* a request that is answered before the store is touched
PostRejected ==
  /\ cycles < MaxCycles
  /\ \E r \in Rejections, gap \in CycleGaps :
       /\ now' = now + gap
       /\ last' = [op |-> "rejected", why |-> r.why, status |-> r.status, body |-> r.body]
  /\ cycles' = cycles + 1
  /\ UNCHANGED <<pods, metrics, geo, nextPodId, nextMetricId, nextGeoId,
                 requestTimestamps, sent, faults, menu>>
  /\ UNCHANGED cacheVars

\* an authenticated request whose live list L was fetched, with the failure
\* (or none) that the store part meets
SnapshotCycle(L, fault) ==
  /\ cycles < MaxCycles
  /\ \E dbPodMap \in DbPodMaps(pods, metrics), gap \in CycleGaps, latency \in Latencies :
       Install(fault, SnapshotPost(Db, L, dbPodMap, fault, now + gap, latency))
  /\ faults' = IF fault = NoFault THEN faults ELSE faults + 1
  /\ cycles' = cycles + 1
  /\ UNCHANGED menu
  /\ UNCHANGED cacheVars

\* a cycle in which every store and provider call succeeds
PostSnapshot ==
  \E L \in LiveLists(MaxNodes, menu) : SnapshotCycle(L, NoFault)

Next == PostRejected \/ PostSnapshot

Spec == Init /\ [][Next]_vars

----------------------------------------------------------------------------
(* Specification of the snapshot endpoint with failing store and provider calls *)

\* a cycle in which a store or provider call may fail
PostSnapshotFault ==
  \E L \in LiveLists(MaxFaultNodes, menu) :
    \E fault \in {NoFault} \cup (IF faults < MaxFaults THEN StoreFaults(L) ELSE {}) :
      SnapshotCycle(L, fault)

NextFault == PostSnapshotFault

\* the reports of the runs with failures: a metadata change (every report
\* with a percentage is a metrics change as well), and storage values of zero
\* and null
FaultMenus == {{1, 2}, {6, 7}}

InitFault ==
  /\ pods = {}
  /\ metrics = {}
  /\ geo = {}
  /\ nextPodId = 1
  /\ nextMetricId = 1
  /\ nextGeoId = 1
  /\ requestTimestamps = <<>>
  /\ now = 0
  /\ sent = <<>>
  /\ cycles = 0
  /\ faults = 0
  /\ menu \in FaultMenus
  /\ last = [op |-> "init"]
  /\ CacheIdle

SpecFault == InitFault /\ [][NextFault]_vars

----------------------------------------------------------------------------
(* Specification of the geolocation service called on its own *)

MaxGeoCalls == 2

BigSize == MAX_IPS_PER_BATCH + 1

\* more addresses than one batch holds: 10.0.0.1:9000 .. 10.0.0.101:9000
BigList == [h \in 1..BigSize |-> Addr(h, 9000)]

\* address lists of a small network: one endpoint, one host on two ports, two
\* hosts, addresses without a usable host, and such addresses (an IPv6
\* endpoint fe80::1:9000 among them) beside an endpoint
SmallLists ==
  {<<NodeAddr(1)>>, <<NodeAddr(1), NodeAddr(3)>>, <<NodeAddr(1), NodeAddr(2)>>,
   <<<<"n", "o", "d", "e", ":", "9">>, <<"1", "0", ".", "0", ".", "0", ".", "1">>,
     <<":", ":", ":", ":">>>>,
   <<<<"n", "o", "d", "e", ":", "9">>, <<"1", "0", ".", "0", ".", "0", ".", "1">>,
     NodeAddr(2), <<":", ":", ":", ":">>,
     <<"f", "e", "8", "0", ":", ":", "1", ":", "9", "0", "0", "0">>>>}

NoEnv(latency) ==
  [exist |-> FALSE, kind |-> "ok", at |-> 1, storeFail |-> 0, latency |-> latency,
   race |-> 0, racePoint |-> "check"]

\* the environments with one thing going wrong, or one concurrent write, in
\* chunk 1 or 2
GeoEnvs(latency) ==
  {[NoEnv(latency) EXCEPT !.exist = TRUE]}
    \cup {[NoEnv(latency) EXCEPT !.kind = k, !.at = c] :
            k \in ProviderKinds \ {"ok"}, c \in 1..2}
    \cup {[NoEnv(latency) EXCEPT !.storeFail = c] : c \in 1..2}
    \cup {[NoEnv(latency) EXCEPT !.race = c, !.racePoint = p] :
            c \in 1..2, p \in {"check", "insert"}}

\* whether the call met what env injects
EnvHit(env, out) ==
  /\ env.exist => out.queried # <<>>
  /\ env.kind # "ok" => Len(out.requested) >= env.at
  /\ env.storeFail # 0 => Len(out.requested) >= env.storeFail
  /\ env.race # 0 => Len(out.requested) >= env.race

InitGeo ==
  /\ pods = {}
  /\ metrics = {}
  /\ geo = {}
  /\ nextPodId = 1
  /\ nextMetricId = 1
  /\ nextGeoId = 1
  /\ requestTimestamps = <<>>
  /\ now = 0
  /\ sent = <<>>
  /\ cycles = 0
  /\ faults = 0
  /\ menu \in {SmallLists, {BigList}}
  /\ last = [op |-> "init", args |-> <<>>, env |-> NoEnv(0)]
  /\ CacheIdle

\* the effect of a processNewIps(addresses) call that returned out
GeoInstall(addresses, env, out) ==
      /\ EnvHit(env, out)
      /\ geo' = out.geo
      /\ nextGeoId' = out.nextGeoId
      /\ requestTimestamps' = out.ts
      /\ sent' = out.sent
      /\ now' = out.now
      /\ last' = [op |-> "processNewIps", args |-> addresses, env |-> env,
                  result |-> out.result, requested |-> out.requested,
                  queried |-> out.queried, threw |-> out.threw,
                  waits |-> out.waits,
                  inserted |-> {g \in out.geo \ geo : g.id \notin out.otherIds},
                  prev |-> [args |-> last.args, env |-> last.env, op |-> last.op]]

\* one processNewIps(addresses) call at time t
GeoCallAt(addresses, t, env) ==
  GeoInstall(addresses, env,
    processNewIps(addresses, t, geo, nextGeoId, requestTimestamps, sent, env))

GeoCall ==
  /\ cycles < MaxGeoCalls
  /\ \E addresses \in menu, gap \in CycleGaps, latency \in Latencies :
       \E env \in {NoEnv(latency)} \cup GeoEnvs(latency) :
         GeoCallAt(addresses, now + gap, env)
  /\ cycles' = cycles + 1
  /\ UNCHANGED <<pods, metrics, nextPodId, nextMetricId, faults, menu>>
  /\ UNCHANGED cacheVars

NextGeo == GeoCall

SpecGeo == InitGeo /\ [][NextGeo]_vars

----------------------------------------------------------------------------
(* Specification of the rate limiter: calls on a fixed schedule while the    *)
(* provider stores nothing                                                   *)

MaxRateCalls == 47

\* the time between the end of one call and the start of the next (with
\* 1136 ms the 46th request of a run finds the first one 59.92 s old)
Periods == {0, 1000, 1136, MIN_DELAY_BETWEEN_REQUESTS_MS, 61000}

Schedules ==
  {[addresses |-> a, gap |-> p, kind |-> k] :
     a \in {<<NodeAddr(1)>>, BigList}, p \in Periods, k \in {"429", "neterr"}}

InitRate ==
  /\ pods = {}
  /\ metrics = {}
  /\ geo = {}
  /\ nextPodId = 1
  /\ nextMetricId = 1
  /\ nextGeoId = 1
  /\ requestTimestamps = <<>>
  /\ now = 0
  /\ sent = <<>>
  /\ cycles = 0
  /\ faults = 0
  /\ menu \in {{sch} : sch \in Schedules}
  /\ last = [op |-> "init", args |-> <<>>, env |-> NoEnv(0)]
  /\ CacheIdle

RateCall ==
  /\ cycles < MaxRateCalls
  /\ \E sch \in menu, latency \in Latencies :
       GeoCallAt(sch.addresses, now + sch.gap,
                 [NoEnv(latency) EXCEPT !.kind = sch.kind, !.at = 0])
  /\ cycles' = cycles + 1
  /\ UNCHANGED <<pods, metrics, nextPodId, nextMetricId, faults, menu>>
  /\ UNCHANGED cacheVars

NextRate == RateCall

SpecRate == InitRate /\ [][NextRate]_vars

----------------------------------------------------------------------------
(* GET node detail: the liveness flag                                        *)

\* 5 * 60 * 1000
FiveMinutes == 300000

\* the answer of the node-detail endpoint for id at time t, first being
\* pods[0] of the rows found by pubkey or address
\* (pubkey = pods[0].pubkey || id; the id is an address here, and no row has
\* an address as its pubkey)
NodeDetail(P, id, first, t) ==
  LET allPods == IF TruthyStr(first.pubkey)
                 THEN {r \in P : r.pubkey = first.pubkey}
                 ELSE {}
  IN  IF allPods = {}
      THEN [status |-> 500, isActive |-> FALSE]
      ELSE [status |-> 200,
            isActive |-> \E r \in allPods : r.updatedAt > t - FiveMinutes]

\* the rows that findMany({where: {OR: [{pubkey: id}, {address: id}]}}) returns
\* for an address id
FoundById(P, id) == {r \in P : r.address = id}

\* how long after the end of a cycle the endpoint is asked: at once, or four
\* minutes later (the next cycle is not yet due)
DetailDelays == {0, 240000}

\* a reconciliation cycle, as long as the endpoint has not been asked
DetailCycle == last.op # "nodeDetail" /\ PostSnapshot

\* GET for a node of the latest live list
GetNodeDetail ==
  /\ last.op = "snapshot"
  /\ \E i \in 1..Len(last.L), d \in DetailDelays :
       LET id == last.L[i].address
       IN  IF FoundById(pods, id) = {}
           THEN last' = [op |-> "nodeDetail", id |-> id, at |-> now + d,
                         status |-> 404, isActive |-> FALSE, after |-> last]
           ELSE \E first \in FoundById(pods, id) :
                  last' = [op |-> "nodeDetail", id |-> id, at |-> now + d, after |-> last]
                            @@ NodeDetail(pods, id, first, now + d)
  /\ UNCHANGED <<pods, metrics, geo, nextPodId, nextMetricId, nextGeoId,
                 requestTimestamps, now, sent, cycles, faults, menu>>
  /\ UNCHANGED cacheVars

NextDetail == DetailCycle \/ GetNodeDetail

SpecDetail == Init /\ [][NextDetail]_vars

----------------------------------------------------------------------------
(* The query cache of lib/db/queries/pods.ts: getCached for one key          *)

MaxCacheCalls == 3

\* the clock stops here
MaxCacheTime == 46000

\* the ttlSeconds of two call sites
CacheTtls == {30, 45}

\* a fresh test that still accepts an entry whose age equals its TTL
IsFreshInclusive(entry, t) ==
  entry # Null /\ t - entry[1].timestamp <= entry[1].expiresIn * 1000

\* cached && now - cached.timestamp < cached.expiresIn * 1000
IsFresh(entry, t) ==
  entry # Null /\ t - entry[1].timestamp < entry[1].expiresIn * 1000

\* now - cached.timestamp > (cached.expiresIn * 1000) / 2
MoreThanHalfExpired(entry, t) == 2 * (t - entry.timestamp) > entry.expiresIn * 1000

\* the promise of one fetchFn() call: started by call id at time t; its data
\* are named after the call
Fetch(id, t, ttlSeconds, kind) ==
  [id |-> id, startedAt |-> t, ttlSeconds |-> ttlSeconds, kind |-> kind]

\* getCached(key, fetchFn, ttlSeconds) called at time t as call id, up to its
\* return (a fresh entry) or its await (no fresh entry)
getCached(entry, t, ttlSeconds, id) ==
  IF IsFresh(entry, t)
  THEN [returned |-> Some(entry[1].data),
        started |-> IF MoreThanHalfExpired(entry[1], t)
                    THEN {Fetch(id, t, ttlSeconds, "refresh")} ELSE {}]
  ELSE [returned |-> Null, started |-> {Fetch(id, t, ttlSeconds, "blocking")}]

\* cache.set(key, ...) when fetch f resolves at time t: the .then callback of
\* a refresh stamps the entry with Date.now(), the awaiting call with the
\* time it was called at
CacheSet(f, t) ==
  Some([data |-> f.id,
        timestamp |-> IF f.kind = "refresh" THEN t ELSE f.startedAt,
        expiresIn |-> f.ttlSeconds,
        kind |-> f.kind])

\* times between events: around half the TTL of the key
CacheSteps(ttlSeconds) == {ttlSeconds * 500 - 1, ttlSeconds * 500, ttlSeconds * 500 + 1}

InitCache ==
  /\ pods = {}
  /\ metrics = {}
  /\ geo = {}
  /\ nextPodId = 1
  /\ nextMetricId = 1
  /\ nextGeoId = 1
  /\ requestTimestamps = <<>>
  /\ now = 0
  /\ sent = <<>>
  /\ cycles = 0
  /\ faults = 0
  /\ menu \in {{ttl} : ttl \in CacheTtls}
  /\ last = [op |-> "init"]
  /\ CacheIdle

storeVars == <<pods, metrics, geo, nextPodId, nextMetricId, nextGeoId,
               requestTimestamps, sent, faults, menu>>

\* a getCached call for the key
GetCachedCall ==
  /\ cycles < MaxCacheCalls
  /\ \E ttlSeconds \in menu :
       LET r == getCached(cache, now, ttlSeconds, cycles + 1)
       IN  /\ pending' = pending \cup r.started
           /\ last' = [op |-> "getCached", at |-> now, returned |-> r.returned,
                       started |-> r.started]
  /\ cycles' = cycles + 1
  /\ UNCHANGED <<cache, completed, now>>
  /\ UNCHANGED storeVars

\* a fetchFn() promise resolves: the entry is set, and an awaiting call returns
FetchResolves ==
  /\ \E f \in pending :
       /\ cache' = CacheSet(f, now)
       /\ pending' = pending \ {f}
       /\ completed' = completed \cup {f.id}
       /\ last' = [op |-> "resolved", at |-> now, fetch |-> f,
                   returned |-> IF f.kind = "blocking" THEN Some(f.id) ELSE Null]
  /\ UNCHANGED <<cycles, now>>
  /\ UNCHANGED storeVars

\* a fetchFn() promise rejects: .catch(console.error) for a refresh, an
\* exception out of getCached for an awaiting call
FetchRejects ==
  /\ \E f \in pending :
       /\ pending' = pending \ {f}
       /\ last' = [op |-> "rejected", at |-> now, fetch |-> f, returned |-> Null]
  /\ UNCHANGED <<cache, completed, cycles, now>>
  /\ UNCHANGED storeVars

\* time passes
ClockTick ==
  /\ \E ttlSeconds \in menu :
       \E d \in CacheSteps(ttlSeconds) :
         /\ now + d <= MaxCacheTime
         /\ now' = now + d
  /\ UNCHANGED <<cache, pending, completed, cycles, last>>
  /\ UNCHANGED storeVars

NextCache == GetCachedCall \/ FetchResolves \/ FetchRejects \/ ClockTick

SpecCache == InitCache /\ [][NextCache]_vars

----------------------------------------------------------------------------
(* Properties of the reconciliation cycle *)

RegistryFaults == {"load", "delete", "upsert", "podIds", "createMany"}

Addresses(P) == {r.address : r \in P}

\* the step is one run of the handler's store part
IsCycle == last'.op = "snapshot" /\ cycles' = cycles + 1

\* the metrics of a report equal those of a stored snapshot, field by field
SameMetrics(row, pod) ==
  /\ row.storageUsed = pod.storage_used
  /\ row.storageCommitted = pod.storage_committed
  /\ row.storageUsagePercent = pod.storage_usage_percent
  /\ row.uptime = pod.uptime

\* the metadata of a report equal those of a registry row
SameMetadata(row, pod) ==
  /\ row.pubkey = pod.pubkey
  /\ row.version = pod.version
  /\ row.isPublic = pod.is_public

\* C1 (mirror invariant): after a cycle in which no store write failed, the
\* registry holds exactly one row for every address of the live list and no
\* row for any other address.
C1_MirrorInvariant ==
  (last.op = "snapshot" /\ last.fault.kind \notin RegistryFaults)
    => /\ Addresses(pods) = ApiAddresses(last.L)
       /\ Cardinality(pods) = Len(last.L)

\* a cycle that both deleted a stale node and inserted a new one
C1_Witness ==
  /\ last.op = "snapshot" /\ last.fault = NoFault
  /\ last.deletedCount > 0 /\ last.upserted # {}
  /\ Addresses(pods) = ApiAddresses(last.L)

\* C2 (idempotence): a fault-free cycle that repeats the live list of the
\* fault-free cycle right before it classifies every node as skipped, upserts
\* nothing and appends no metric row.
C2_Idempotence ==
  [][(/\ IsCycle
      /\ last.op = "snapshot" /\ last.fault = NoFault
      /\ last'.fault = NoFault /\ last'.L = last.L)
       => /\ last'.savedCount = 0
          /\ last'.skippedCount = Len(last.L)
          /\ last'.upserted = {}
          /\ metrics' = metrics]_vars

\* C6 (partial-failure isolation): when every node of the live list is changed
\* and exactly one upsert throws, the cycle answers normally, lists exactly one
\* error, and savedCount leaves the failing node out.
C6_PartialFailure ==
  [][(/\ IsCycle
      /\ last'.fault.kind = "upsert"
      /\ \A m \in DbPodMaps(pods, metrics) : \A i \in 1..Len(last'.L) :
            IsMetadataChanged(m, last'.L[i]) \/ IsMetricsChanged(m, last'.L[i]))
       => /\ last'.status = 200 /\ last'.body = "dbSave"
          /\ Len(last'.errors) = 1
          /\ last'.savedCount = Len(last'.L) - 1]_vars

C9_MetricsOnly ==
  [][(IsCycle /\ last'.fault.kind \notin RegistryFaults)
       => \A i \in 1..Len(last'.L) : \A r \in pods :
            LET pod == last'.L[i]
                new == {m \in metrics' \ metrics : m.podId = r.id}
            IN  (/\ r.address = pod.address
                 /\ SameMetadata(r, pod)
                 /\ \A l \in LatestMetrics(metrics, r.id) :
                      l # Null /\ ~SameMetrics(l[1], pod))
                  => /\ Cardinality(new) = 1
                     /\ \A m \in new : m.timestamp = pod.last_seen_timestamp * 1000
                     /\ pod.address \notin last'.upserted
                     /\ r \in pods']_vars

\* a cycle that appended a second snapshot to a node without upserting anything
C9_Witness ==
  /\ last.op = "snapshot" /\ last.fault = NoFault
  /\ last.upserted = {} /\ Cardinality(last.appended) = 1
  /\ \E r \in pods : Cardinality({m \in metrics : m.podId = r.id}) = 2

\* C10 (metadata-only change): for a registered node whose report differs from
\* its row only in the version and repeats the metrics of its latest snapshot,
\* a cycle without registry fault stores the reported version in the same
\* row, appends no metric row for the node, and counts the node as saved
\* (savedCount = 1 when it is the only node).
C10_MetadataOnly ==
  [][(IsCycle /\ last'.fault.kind \notin RegistryFaults)
       => \A i \in 1..Len(last'.L) : \A r \in pods :
            LET pod == last'.L[i]
            IN  (/\ r.address = pod.address
                 /\ r.pubkey = pod.pubkey /\ r.isPublic = pod.is_public
                 /\ r.version # pod.version
                 /\ \A l \in LatestMetrics(metrics, r.id) :
                      l # Null /\ SameMetrics(l[1], pod))
                  => /\ \E u \in pods' : /\ u.id = r.id /\ u.address = r.address
                                         /\ u.version = pod.version
                     /\ \A m \in metrics' \ metrics : m.podId # r.id
                     /\ last'.savedCount >= 1
                     /\ Len(last'.L) = 1
                          => last'.savedCount = 1 /\ last'.skippedCount = 0]_vars

\* a cycle that rewrote the version of its only node and appended nothing
C10_Witness ==
  /\ last.op = "snapshot" /\ last.fault = NoFault
  /\ Len(last.L) = 1 /\ last.savedCount = 1
  /\ last.upserted = {last.L[1].address} /\ last.appended = {}
  /\ \E r \in pods : /\ r.version = "1.0.1"
                     /\ \E m \in metrics : m.podId = r.id

----------------------------------------------------------------------------
(* Properties of the geolocation service *)

\* the step is one processNewIps call made directly
IsGeoCall == last'.op = "processNewIps" /\ cycles' = cycles + 1

\* C3 (rate limit): at every request the provider receives, at most 45
\* requests (that one included) were sent in the 60 seconds up to it.
C3_RateLimit ==
  \A i \in 1..Len(sent) :
    Cardinality({j \in 1..i : sent[j] > sent[i] - 60000}) <= MAX_REQUESTS_PER_MINUTE

\* C4 (write-once store): a call never removes or changes a geolocation
\* record, and never leaves two records with one IP.
C4_WriteOnce ==
  [][/\ \A g \in geo : g \in geo'
     /\ \A g1, g2 \in geo' : g1.ip = g2.ip => g1 = g2]_vars

\* a second call whose provider answer named a new IP twice, beside an IP
\* that already had its record
C4_Witness ==
  /\ last.op = "processNewIps" /\ last.env.kind = "repeat"
  /\ last.inserted # {} /\ geo \ last.inserted # {}
  /\ last.result.storedCount > Cardinality(last.inserted)

\* C5 as claimed: a call that repeats the address list of the call before it
\* sends no request and finds no new IP, whatever happened in the first call.
C5_SecondCallIdle ==
  [][(IsGeoCall /\ last.op = "processNewIps" /\ last'.args = last.args)
       => /\ last'.requested = <<>>
          /\ last'.result.newIpsCount = 0]_vars

\* the existence query and the store calls of the call succeeded, and every
\* request was answered with a record for each IP of its chunk
CleanCall(call) ==
  /\ ~call.env.exist
  /\ call.env.storeFail = 0
  /\ call.env.kind \in {"ok", "repeat"}

\* C5 (amended): a call that repeats the address list of the call before it
\* sends no request and finds no new IP, provided that in the first call the
\* existence query and the store calls succeeded and every request was
\* answered with a record for each requested IP.
C5_SecondCallIdleAfterClean ==
  [][(IsGeoCall /\ last.op = "processNewIps" /\ last'.args = last.args
        /\ CleanCall(last))
       => /\ last'.requested = <<>>
          /\ last'.result.newIpsCount = 0]_vars

\* a repeated call after a clean first call that stored records
C5_Witness ==
  /\ last.op = "processNewIps" /\ last.prev.op = "processNewIps"
  /\ last.prev.args = last.args /\ CleanCall(last.prev)
  /\ last.queried # <<>> /\ geo # {}
  /\ last.requested = <<>> /\ last.result = ZeroResult

GeoFaultKinds == {"geoExist", "geoStore", "429", "neterr"}

\* the tables and the counts after the step are those of the outcome ref
SameOutcome(ref) ==
  /\ pods' = ref.db.pods
  /\ metrics' = ref.db.metrics
  /\ last'.savedCount = ref.resp.savedCount
  /\ last'.skippedCount = ref.resp.skippedCount
  /\ last'.deletedCount = ref.resp.deletedCount
  /\ last'.errors = ref.resp.errors
  /\ last'.status = ref.resp.status

\* the geolocation step left the registry, the metric history and the counts
\* of the cycle as the same cycle without the fault leaves them
CycleUnaffected ==
  \E m \in DbPodMaps(pods, metrics), gap \in CycleGaps, latency \in Latencies :
    SameOutcome(SnapshotPost(Db, last'.L, m, NoFault, now + gap, latency))

\* C8 as claimed: whatever fails in the geolocation step (existence query,
\* provider request, store call), processNewIps does not throw and returns
\* all zeros, and the cycle is unaffected.
C8_ZeroOnAnyFailure ==
  [][(IsCycle /\ last'.fault.kind \in GeoFaultKinds)
       => /\ ~last'.geolocation.threw
          /\ last'.geolocation.result = ZeroResult
          /\ CycleUnaffected]_vars

\* C8 (amended): processNewIps does not throw; when the existence query or a
\* store call fails it returns all zeros; when a provider request fails, the
\* chunk adds nothing to storedCount and batchesProcessed while newIpsCount
\* still is the number of new IPs; the cycle is unaffected in every case.
C8_BestEffort ==
  [][(IsCycle /\ last'.fault.kind \in GeoFaultKinds)
       => /\ ~last'.geolocation.threw
          /\ last'.fault.kind \in {"geoExist", "geoStore"}
               => last'.geolocation.result = ZeroResult
          /\ last'.fault.kind \in {"429", "neterr"}
               => last'.geolocation.result =
                    [newIpsCount |->
                       Len(Without(last'.geolocation.queried, {g.ip : g \in geo})),
                     storedCount |-> 0, batchesProcessed |-> 0]
          /\ CycleUnaffected]_vars

\* a cycle that saved nodes and whose geolocation insert threw
C8_Witness ==
  /\ last.op = "snapshot" /\ last.fault.kind = "geoStore"
  /\ last.geolocation.called /\ last.geolocation.requested # <<>>
  /\ last.geolocation.result = ZeroResult /\ ~last.geolocation.threw
  /\ last.savedCount > 0 /\ pods # {} /\ geo = {}

\* the text of an address before its first colon (the whole address if none)
HostPart(a) ==
  LET colons == {i \in 1..Len(a) : a[i] = ":"}
  IN  IF colons = {} THEN a
      ELSE SubSeq(a, 1, (CHOOSE i \in colons : \A j \in colons : i <= j) - 1)

\* an address without a colon, or whose host is neither IPv4- nor IPv6-shaped
Unusable(a) ==
  \/ \A i \in 1..Len(a) : a[i] # ":"
  \/ ~(ipv4Regex(HostPart(a)) \/ ipv6Regex(HostPart(a)))

\* the IPs of all provider requests of the latest call
RequestedIps == UNION {Range(last.requested[c]) : c \in 1..Len(last.requested)}

\* C11 (invalid-IP rejection): the host of an address without a colon or
\* without an IP-shaped host is neither in the existence query nor in a
\* provider request of the call; a call in which no address is usable makes no
\* existence query and sends no request.
C11_InvalidRejected ==
  last.op = "processNewIps"
    => /\ \A i \in 1..Len(last.args) :
            Unusable(last.args[i])
              => /\ HostPart(last.args[i]) \notin Range(last.queried)
                 /\ HostPart(last.args[i]) \notin RequestedIps
       /\ (\A i \in 1..Len(last.args) : Unusable(last.args[i]))
            => /\ last.queried = <<>>
               /\ last.requested = <<>>
               /\ last.result = ZeroResult

\* a call with unusable addresses beside a usable one, which was requested
C11_Witness ==
  /\ last.op = "processNewIps"
  /\ \E i, j \in 1..Len(last.args) :
        /\ Unusable(last.args[i]) /\ HostPart(last.args[i]) # <<>>
        /\ ~Unusable(last.args[j]) /\ HostPart(last.args[j]) \in RequestedIps

\* the places (chunk, position) at which the latest call sent ip to the provider
RequestPlaces(ip) ==
  {<<c, k>> \in (1..Len(last.requested)) \X (1..MAX_IPS_PER_BATCH) :
     k <= Len(last.requested[c]) /\ last.requested[c][k] = ip}

\* C12 (dedup): one call sends an IP to the provider at most once and inserts
\* at most one record for it, however many addresses of the list share the IP.
C12_Dedup ==
  last.op = "processNewIps"
    => \A ip \in RequestedIps \cup {g.ip : g \in last.inserted} :
         /\ Cardinality(RequestPlaces(ip)) <= 1
         /\ Cardinality({g \in last.inserted : g.ip = ip}) <= 1

\* a call with one host on two ports, whose IP was requested and stored
C12_Witness ==
  /\ last.op = "processNewIps"
  /\ \E i, j \in 1..Len(last.args) :
        /\ i # j /\ last.args[i] # last.args[j]
        /\ HostPart(last.args[i]) = HostPart(last.args[j])
        /\ HostPart(last.args[i]) \in RequestedIps
        /\ \E g \in last.inserted : g.ip = HostPart(last.args[i])

\* C13 (window test): on a fresh instance, the 46th chunk request is sent at
\* least 60 seconds after the 1st.
C13_WindowTest ==
  Len(sent) > MAX_REQUESTS_PER_MINUTE
    => sent[MAX_REQUESTS_PER_MINUTE + 1] - sent[1] >= 60000

\* C14 (storedCount is exact): the storedCount a call returns is the number of
\* records the call inserted.
C14_StoredExact ==
  last.op = "processNewIps"
    => last.result.storedCount = Cardinality(last.inserted)

\* C15 (batchesProcessed is exact): the batchesProcessed a call returns is the
\* number of its chunks of which the call inserted at least one record.
C15_BatchesExact ==
  last.op = "processNewIps"
    => last.result.batchesProcessed =
         Cardinality({c \in 1..Len(last.requested) :
                        \E g \in last.inserted : g.ip \in Range(last.requested[c])})

ProviderFailures == {"429", "500", "neterr"}

\* the concatenation of the chunks the latest call requested
RECURSIVE Joined(_, _)
Joined(chunks, n) == IF n = 0 THEN <<>> ELSE Joined(chunks, n - 1) \o chunks[n]

FailRecord(g) ==
  /\ g.status = "fail"
  /\ \A f \in {"country", "countryCode", "region", "regionName", "city", "zip",
               "lat", "lon", "timezone", "isp", "org", "asInfo"} : g[f] = Null

\* C18 (failed lookups are remembered): an IP the provider answered with
\* status "fail" gets a record with that status and no location column, and
\* an IP that has such a record is in no request of any later call.
C18_FailRemembered ==
  [][IsGeoCall
       => /\ \A g \in geo' : g.status = "fail" => FailRecord(g)
          /\ \A g \in geo : g.status = "fail"
               => g.ip \notin UNION {Range(last'.requested[c]) : c \in 1..Len(last'.requested)}
          /\ (last'.env.kind = "ok" /\ last'.env.storeFail = 0)
               => \A c \in 1..Len(last'.requested) : \A ip \in Range(last'.requested[c]) :
                    ProviderRecord(ip).status = "fail"
                      => \E g \in geo' : g.ip = ip /\ FailRecord(g)]_vars

\* a later call with the address of a host whose lookup had failed: the IP is
\* in the existence query and in no request
C18_Witness ==
  /\ last.op = "processNewIps" /\ last.prev.op = "processNewIps"
  /\ \E g \in geo \ last.inserted :
        /\ FailRecord(g)
        /\ g.ip \in Range(last.queried)
        /\ g.ip \notin RequestedIps
  /\ last.requested # <<>>


----------------------------------------------------------------------------
(* Classification and the geolocation trigger *)

\* the registry row of a reported node, if any
RowOf(P, pod) == {r \in P : r.address = pod.address}

\* a report that repeats the stored state: the node has a row with the
\* reported metadata and a latest snapshot with the reported metrics
Unchanged(P, M, pod) ==
  \E r \in RowOf(P, pod) :
    /\ SameMetadata(r, pod)
    /\ \A l \in LatestMetrics(M, r.id) : l # Null /\ SameMetrics(l[1], pod)

\* a report that differs from the stored state in metadata or in metrics
Changed(P, M, pod) ==
  \/ RowOf(P, pod) = {}
  \/ \E r \in RowOf(P, pod) :
       \/ ~SameMetadata(r, pod)
       \/ \A l \in LatestMetrics(M, r.id) : l = Null \/ ~SameMetrics(l[1], pod)

\* the positions of the live list L whose report differs from the stored state
ChangedPositions(P, M, L) == {i \in 1..Len(L) : Changed(P, M, L[i])}

\* the positions of the live list L whose report repeats the stored state
UnchangedPositions(P, M, L) == {i \in 1..Len(L) : Unchanged(P, M, L[i])}

\* C19 (skipped nodes are untouched): in a cycle without registry fault a
\* node is counted as saved if and only if its report differs from the stored
\* state in metadata or metrics, and as skipped otherwise; the registry row of
\* a skipped node (every field, updatedAt included) and its metric rows are
\* the same after the cycle as before.
C19_SkippedUntouched ==
  [][(IsCycle /\ last'.fault.kind \notin RegistryFaults)
       => LET L == last'.L
          IN  /\ last'.savedCount + last'.skippedCount = Len(L)
              /\ last'.savedCount >= Cardinality(ChangedPositions(pods, metrics, L))
              /\ last'.skippedCount >= Cardinality(UnchangedPositions(pods, metrics, L))
              /\ \A i \in UnchangedPositions(pods, metrics, L) :
                   \A r \in RowOf(pods, L[i]) :
                     /\ r \in pods'
                     /\ {m \in metrics' : m.podId = r.id} = {m \in metrics : m.podId = r.id}]_vars

\* the addresses of the nodes that the cycle of the last response wrote
\* something for: a registry upsert or an appended metric row
SavedAddresses ==
  last.upserted \cup {r.address : r \in {q \in pods : \E m \in last.appended : m.podId = q.id}}

\* C20 (geolocation trigger set): after a cycle without fault that saved at
\* least one node, processNewIps was invoked with exactly the addresses of the
\* saved nodes; after a cycle that saved none it was not invoked and the
\* geolocation counts are all zero.
C20_TriggerSet ==
  (last.op = "snapshot" /\ last.fault = NoFault)
    => IF last.savedCount > 0
       THEN /\ last.geolocation.called
            /\ Range(last.geolocation.args) = SavedAddresses
       ELSE /\ ~last.geolocation.called
            /\ last.geolocation.result = ZeroResult

----------------------------------------------------------------------------
(* Batching and the limiter's window *)

\* the IPs of the call of this step that had no record when it began
NewIpsOfCall == Without(last'.queried, {g.ip : g \in geo})

\* the send times of the requests of the call of this step
SentInCall == SubSeq(sent', Len(sent) + 1, Len(sent'))

\* the smaller of two numbers
Min(a, b) == IF a <= b THEN a ELSE b

\* C21 (sequential batching): in a call whose existence query succeeds, the
\* k-th request carries the k-th run of 100 consecutive new IPs (the last run
\* may be shorter), so order and membership are kept and no IP is in two
\* chunks; every chunk is requested unless a store call threw before it; and
\* a request is not sent before the previous request was answered and stored.
C21_SequentialBatching ==
  [][(IsGeoCall /\ ~last'.env.exist)
       => LET n == Len(last'.requested)
              size == Len(NewIpsOfCall)
          IN  /\ \A k \in 1..n :
                   /\ (k - 1) * MAX_IPS_PER_BATCH < size
                   /\ last'.requested[k] =
                        SubSeq(NewIpsOfCall, (k - 1) * MAX_IPS_PER_BATCH + 1,
                               Min(k * MAX_IPS_PER_BATCH, size))
              /\ last'.env.storeFail = 0 => n * MAX_IPS_PER_BATCH >= size
              /\ Len(SentInCall) = n
              /\ \A k \in 1..(n - 1) :
                   SentInCall[k + 1] >= SentInCall[k] + last'.env.latency]_vars

\* a call that sent two requests: 100 IPs, then the remaining one
C21_Witness ==
  /\ last.op = "processNewIps" /\ ~last.env.exist
  /\ Len(last.requested) = 2
  /\ Len(last.requested[1]) = MAX_IPS_PER_BATCH /\ Len(last.requested[2]) = 1
  /\ sent[Len(sent)] > sent[Len(sent) - 1]

\* C22 (every send is counted): the timestamps that a call adds to the
\* limiter's window are exactly the send times of its requests, one for each
\* request, whatever the outcome of the request.
C22_EverySendCounted ==
  [][IsGeoCall
       => LET added(x) == x > now
          IN  SelectSeq(requestTimestamps', added) = SentInCall]_vars

\* the records that another instance of the service wrote during the call of
\* this step
WrittenByOther == geo' \ (geo \cup last'.inserted)

\* C23 (duplicate-key race): when another writer stores the records of a
\* chunk's IPs after the call's existence check (while the request is in
\* flight, or between findMany and createMany), the call ends without an
\* error, and afterwards every IP of the chunk has exactly one record, the
\* one the other writer wrote.
C23_RaceHarmless ==
  [][(IsGeoCall /\ last'.env.race # 0)
       => /\ ~last'.threw
          /\ last'.result.newIpsCount = Len(NewIpsOfCall)
          /\ \A ip \in Range(last'.requested[last'.env.race]) :
               /\ \E g \in WrittenByOther : g.ip = ip
               /\ Cardinality({g \in geo' : g.ip = ip}) = 1]_vars

\* a call whose only chunk was stored by another writer between findMany and
\* createMany: createMany ran and inserted nothing
C23_Witness ==
  /\ last.op = "processNewIps"
  /\ last.env.race = 1 /\ last.env.racePoint = "insert"
  /\ last.requested # <<>> /\ last.inserted = {}
  /\ last.result.storedCount > 0
  /\ \A ip \in Range(last.requested[1]) : \E g \in geo : g.ip = ip

----------------------------------------------------------------------------
(* The metric history *)

\* no two rows of M belong to the same node and reporting timestamp
OneRowPerKey(M) ==
  \A m1, m2 \in M : (m1.podId = m2.podId /\ m1.timestamp = m2.timestamp) => m1 = m2

\* C24 (snapshot key invariant): after every cycle the metric history holds
\* at most one row for a node and a reporting timestamp; a cycle leaves every
\* existing row as it is, except the rows of nodes it deletes.
C24_SnapshotKey ==
  [][IsCycle
       => /\ OneRowPerKey(metrics')
          /\ \A m \in metrics : m \in metrics' \/ (\A r \in pods' : r.id # m.podId)]_vars

\* the reports of the live list L that the metric row m of registry P belongs to
ReportsOf(P, L, m) ==
  {i \in 1..Len(L) : \E r \in P : r.id = m.podId /\ r.address = L[i].address}

\* C25 (null is distinct from zero): every metric row a cycle appends holds
\* the metrics its node reported, field by field: a reported 0 is stored as 0
\* and a stored null stands for a value that was not reported.
C25_NullNotZero ==
  [][(IsCycle /\ last'.fault.kind \notin RegistryFaults)
       => \A m \in metrics' \ metrics :
            /\ ReportsOf(pods', last'.L, m) # {}
            /\ \A i \in ReportsOf(pods', last'.L, m) : SameMetrics(m, last'.L[i])]_vars

----------------------------------------------------------------------------
(* Properties of the query cache *)

\* the step is one getCached call
IsCacheCall == last'.op = "getCached" /\ cycles' = cycles + 1

\* the step settles a fetch
IsSettled == last'.op \in {"resolved", "rejected"} /\ pending' # pending

\* the age of the cache entry at the time of the step
EntryAge == now - cache[1].timestamp

\* C26 (cache hit rule): a getCached call that finds an entry whose age is at
\* least its TTL returns nothing from the cache and awaits a fetch, whose
\* result replaces the entry and is returned; a call that finds a younger
\* entry returns its data at once and awaits no fetch, and it starts a refresh
\* if and only if the age of the entry exceeds half its TTL.
C26_CacheHitRule ==
  [][/\ (IsCacheCall /\ cache # Null /\ EntryAge >= cache[1].expiresIn * 1000)
          => /\ last'.returned = Null
             /\ \E f \in pending' \ pending : f.kind = "blocking"
     /\ (IsCacheCall /\ cache # Null /\ EntryAge < cache[1].expiresIn * 1000)
          => /\ last'.returned = Some(cache[1].data)
             /\ \A f \in pending' \ pending : f.kind = "refresh"
             /\ (pending' # pending) <=> (2 * EntryAge > cache[1].expiresIn * 1000)
     /\ (IsSettled /\ last'.op = "resolved" /\ last'.fetch.kind = "blocking")
          => /\ cache' # Null /\ cache'[1].data = last'.fetch.id
             /\ last'.returned = Some(last'.fetch.id)]_vars

\* a call answered from an entry in the second half of its life, which started
\* a refresh
C26_Witness ==
  /\ last.op = "getCached" /\ last.returned # Null
  /\ \E f \in last.started : f.kind = "refresh" /\ f \in pending
  /\ cache # Null /\ 2 * (now - cache[1].timestamp) > cache[1].expiresIn * 1000

\* the fetch of S that started last (fetches are numbered in starting order)
LatestStarted(S) == CHOOSE id \in S : \A other \in S : other <= id

\* C30 (cache refresh ordering): a fetch that resolves does not overwrite an
\* entry written by a fetch that started after it; when no fetch is in flight
\* any more, the entry holds the data of the latest-started fetch that
\* resolved; a refresh that fails leaves the entry as it is.
C30_RefreshOrdering ==
  [][IsSettled
       => /\ (last'.op = "resolved" /\ cache # Null /\ cache[1].data > last'.fetch.id)
               => cache' = cache
          /\ (pending' = {} /\ completed' # {})
               => cache' # Null /\ cache'[1].data = LatestStarted(completed')
          /\ (last'.op = "rejected" /\ last'.fetch.kind = "refresh")
               => cache' = cache]_vars

----------------------------------------------------------------------------
(* The limiter's wait *)

\* C27 (limiter wait bound): whenever waitForRateLimit finds 45 or more
\* timestamps in the window after its first clean-up, the wait it computes is
\* less than 100 ms, it sleeps that long if the wait is positive and not at
\* all otherwise, and the clean-up after the sleep removes no timestamp.
C27_WaitBound ==
  [][IsGeoCall
       => \A k \in 1..Len(last'.waits) :
            LET w == last'.waits[k]
            IN  w.found >= MAX_REQUESTS_PER_MINUTE
                  => /\ w.waitTime # Null
                     /\ w.waitTime[1] < 100
                     /\ w.waited = (IF w.waitTime[1] > 0 THEN w.waitTime[1] ELSE 0)
                     /\ w.removed = 0]_vars

\* a call whose request met a full window and slept for the computed wait
C27_Witness ==
  /\ last.op = "processNewIps"
  /\ \E k \in 1..Len(last.waits) :
       /\ last.waits[k].found >= MAX_REQUESTS_PER_MINUTE
       /\ last.waits[k].waited > 0

----------------------------------------------------------------------------
(* Host extraction *)

\* an address with a colon whose text before the first colon is a dotted quad
HasIpv4Host(a) == (\E i \in 1..Len(a) : a[i] = ":") /\ ipv4Regex(HostPart(a))

\* the hosts of the addresses that have an IPv4 host, in order of first
\* occurrence
Ipv4Hosts(addresses) ==
  LET kept == SelectSeq(addresses, HasIpv4Host)
      first(i) == \A j \in 1..(i - 1) : HostPart(kept[j]) # HostPart(kept[i])
      at == SelectSeq([i \in 1..Len(kept) |-> i], first)
  IN  [k \in 1..Len(at) |-> HostPart(kept[at[k]])]

----------------------------------------------------------------------------
(* The liveness flag *)

\* C29 (liveness flag): the node-detail endpoint, asked less than five
\* minutes after a cycle for a node with a public key that the cycle (and
\* every cycle since the node appeared) reported, answers isActive = true.
C29_LiveNodeActive ==
  [][(/\ last'.op = "nodeDetail" /\ last.op = "snapshot"
      /\ \E i \in 1..Len(last.L) :
           last.L[i].address = last'.id /\ TruthyStr(last.L[i].pubkey))
       => /\ last'.status = 200
          /\ last'.isActive]_vars

====
